---- MODULE Spec2Model ----
(***************************************************************************)
(* State-machine model of src/program.py: a voxel world built from a noise *)
(* field (lines 98-119) and then changed by key and mouse events           *)
(* (Voxel.input, lines 75-92, and the module-level input, lines 157-168).  *)
(*                                                                         *)
(* Every Voxel(...) call creates a new scene entity; nothing in the        *)
(* program keys entities by position.  The world is therefore a bag        *)
(* (multiset) of entities [block_type, position], not a map from           *)
(* coordinates to block types.                                             *)
(*                                                                         *)
(* Float positions of the player are kept in fixed point, in units of      *)
(* 1/Scale; noise samples are kept in units of 1/NoiseDen.                 *)
(***************************************************************************)
EXTENDS Integers, Sequences, FiniteSets, Bags, TLC

VARIABLES
    pc,                  \* "gen": inside the generation loop; "run": app.run()
    col,                 \* position of the generation loop (columns done)
    seed,                \* seed of the noise field (line 98)
    voxels,              \* bag of Voxel entities in the scene
    current_block_type,  \* the global of line 50
    player,              \* player.position, in units of 1/Scale
    picks,               \* number of events that changed the world so far
    ev                   \* the last event delivered: key, hovered entity, mouse.normal

vars == <<pc, col, seed, voxels, current_block_type, player, picks, ev>>

(***************************************************************************)
(* Program constants and the bounds of the model                           *)
(***************************************************************************)
\* Side of the generated footprint (24 in the source, scaled down here).
world_size == 1

world_height == 8

\* player.y < -10 at line 167
FallThreshold == -10

\* Fixed-point denominator of player coordinates (quarters of a cell).
Scale == 4

\* Fixed-point denominator of noise samples (tenths).
NoiseDen == 10

\* Seeds considered (random.randint(1, 1000) in the source).
MaxSeed == 7

\* Events that change the world (placements and removals) in one run.
MaxPicks == 1

BLOCK_TYPES == {"grass", "dirt", "stone", "bedrock", "wood"}

block_map == [k \in {"1", "2", "3", "4"} |->
                 CASE k = "1" -> "grass"
                   [] k = "2" -> "dirt"
                   [] k = "3" -> "stone"
                   [] k = "4" -> "wood"]

\* Keys delivered to the handlers.
Keys == {"1", "2", "3", "4", "5", "lava", "left mouse down", "right mouse down"}

\* key.isdigit() for the keys considered
IsDigit(key) == key \in {"0", "1", "2", "3", "4", "5", "6", "7", "8", "9"}

\* int(key) for a digit key
IntOf(key) ==
    CASE key = "0" -> 0 [] key = "1" -> 1 [] key = "2" -> 2 [] key = "3" -> 3
      [] key = "4" -> 4 [] key = "5" -> 5 [] key = "6" -> 6 [] key = "7" -> 7
      [] key = "8" -> 8 [] key = "9" -> 9

\* mouse.normal of the face hit: a top, a bottom and a side face.
Normals == {<<0, 1, 0>>, <<0, -1, 0>>, <<1, 0, 0>>}

\* Column whose entities the pointer is taken to hover (with world_size = 1
\* this is every generated entity).
PickColumn == <<0, 0>>

\* Entities that can be mouse.hovered_entity.  Entities on one coordinate
\* have the same collider: either of them can be the hovered one.
Hoverable(w) ==
    {b \in BagToSet(w) : <<b.position[1], b.position[3]>> = PickColumn}

NoVoxel == [block_type |-> "none", position |-> <<0, 0, 0>>]
NoNormal == <<0, 0, 0>>

Add(p, n) == <<p[1] + n[1], p[2] + n[2], p[3] + n[3]>>

(***************************************************************************)
(* Voxel entities                                                          *)
(***************************************************************************)
\* Voxel(block_type, position): a new entity is added to the scene.
Voxel(w, block_type, position) ==
    w (+) SetToBag({[block_type |-> block_type, position |-> position]})

\* destroy(self): that one entity leaves the scene.
DestroyEntity(w, self) == w (-) SetToBag({self})

(***************************************************************************)
(* World generation                                                        *)
(***************************************************************************)
\* noise([x * 0.03, z * 0.03]) in units of 1/NoiseDen.  PerlinNoise is a
\* library; the fields considered are one per seed, and over the seeds each
\* column takes every value of a range around 0.
NoiseSample(s, x, z) == s - 3 + x + 2 * z

\* floor(y * world_height)
Height(n) == (n * world_height) \div NoiseDen

\* Variant of StoneFill that stops above y = 0: range(int(y) - 3, 0, -1).
RECURSIVE StoneFillAboveZero(_, _, _, _)
StoneFillAboveZero(w, x, z, depth) ==
    IF depth > 0
    THEN StoneFillAboveZero(Voxel(w, "stone", <<x, depth, z>>), x, z, depth - 1)
    ELSE w

\* for depth in range(int(y) - 3, -1, -1): Voxel('stone', (x, depth, z))
RECURSIVE StoneFill(_, _, _, _)
StoneFill(w, x, z, depth) ==
    IF depth > -1
    THEN StoneFill(Voxel(w, "stone", <<x, depth, z>>), x, z, depth - 1)
    ELSE w

\* The body of the generation loop for one column.
Column(w, x, y, z) ==
    LET w1 == Voxel(w, "grass", <<x, y, z>>)
        w2 == Voxel(w1, "dirt", <<x, y - 1, z>>)
        w3 == Voxel(w2, "dirt", <<x, y - 2, z>>)
        w4 == StoneFill(w3, x, z, y - 3)
    IN  Voxel(w4, "bedrock", <<x, -1, z>>)

ColX(c) == c % world_size
ColZ(c) == c \div world_size
NumCols == world_size * world_size

ColumnHeight(s, x, z) == Height(NoiseSample(s, x, z))

(***************************************************************************)
(* Player                                                                  *)
(***************************************************************************)
\* position=(world_size / 2, world_height + 5, world_size / 2)
RespawnPosition ==
    <<(world_size * Scale) \div 2, (world_height + 5) * Scale,
      (world_size * Scale) \div 2>>

\* Positions the first-person controller moves the player to.
PlayerPositions ==
    { <<1, 3, 1>>,       \* (0.25, 0.75, 0.25): on the terrain
      <<2, 6, 2>>,       \* (0.5, 1.5, 0.5): on the terrain, halfway between cells
      <<1, -41, 1>>,     \* (0.25, -10.25, 0.25): fallen past the threshold
      <<1, -45, 1>> }    \* (0.25, -11.25, 0.25): fallen further

\* player.y < -10
Fallen(p) == p[2] < FallThreshold * Scale

\* Variant of PyRound that takes the floor: math.floor in place of round.
PyFloor(q) == q \div Scale

\* Python's round() of q / Scale: nearest integer, ties to the even one.
PyRound(q) ==
    LET f == q \div Scale
        r == q % Scale
    IN  IF 2 * r < Scale THEN f
        ELSE IF 2 * r > Scale THEN f + 1
        ELSE IF f % 2 = 0 THEN f ELSE f + 1

\* (round(player.x), round(player.y), round(player.z))
PlayerCell(p) == <<PyRound(p[1]), PyRound(p[2]), PyRound(p[3])>>

(***************************************************************************)
(* Handlers                                                                *)
(***************************************************************************)
\* Variant of Select with the range one short: int(key) in range(1, 4).
SelectShortRange(key, cur) ==
    IF IsDigit(key) /\ IntOf(key) \in 1..3 THEN block_map[key] ELSE cur

\* Block selection of the module-level input (lines 161-163).
Select(key, cur) ==
    IF IsDigit(key) /\ IntOf(key) \in 1..4 THEN block_map[key] ELSE cur

\* Fall reset of the module-level input (lines 167-168).
FallReset(p) ==
    IF Fallen(p) THEN RespawnPosition ELSE p

\* Placement branch of Voxel.input (lines 79-85).
Place(w, self, normal, cur, p) ==
    LET new_position == Add(self.position, normal)
    IN  IF ~(new_position = PlayerCell(p))
        THEN Voxel(w, cur, new_position)
        ELSE w

\* Variant of Remove without the bedrock test.
RemoveAny(w, self) == DestroyEntity(w, self)

\* Removal branch of Voxel.input (lines 89-92).
Remove(w, self) ==
    IF self.block_type # "bedrock" THEN DestroyEntity(w, self) ELSE w

\* Voxel.input(self, key) of the entity `self`; hovered is self.hovered.
VoxelInput(w, self, hovered, key, normal, cur, p) ==
    IF hovered
    THEN LET w1 == IF key = "right mouse down"
                   THEN Place(w, self, normal, cur, p) ELSE w
         IN  IF key = "left mouse down" THEN Remove(w1, self) ELSE w1
    ELSE w

(***************************************************************************)
(* State machine                                                           *)
(***************************************************************************)
NoEvent == [key |-> "none", hovered |-> NoVoxel, normal |-> NoNormal]

Init ==
    /\ pc = "gen"
    /\ col = 0
    /\ seed \in 1..MaxSeed
    /\ voxels = EmptyBag
    /\ current_block_type = "grass"
    /\ player = RespawnPosition
    /\ picks = 0
    /\ ev = NoEvent

\* One pass of the body of the nested loops of lines 103-119.
GenColumn ==
    /\ pc = "gen"
    /\ LET x == ColX(col)
           z == ColZ(col)
       IN  voxels' = Column(voxels, x, ColumnHeight(seed, x, z), z)
    /\ col' = col + 1
    /\ pc' = IF col + 1 = NumCols THEN "run" ELSE "gen"
    /\ UNCHANGED <<seed, current_block_type, player, picks, ev>>

\* A frame without input: the controller (speed=7, gravity=0.8) moves the
\* player; below the terrain nothing stops the fall, so a fallen player
\* does not rise.  No code of the program runs in such a frame.
Tick(p) ==
    /\ pc = "run"
    /\ Fallen(player) => p[2] <= player[2]
    /\ player' = p
    /\ ev' = [key |-> "tick", hovered |-> NoVoxel, normal |-> NoNormal]
    /\ UNCHANGED <<pc, col, seed, voxels, current_block_type, picks>>

\* A key or mouse-button event: the module-level input runs, then the
\* input of every entity; only the hovered entity (at most one) acts, and
\* it reads the globals as the module-level input left them.
KeyEvent(key, self, normal) ==
    /\ pc = "run"
    /\ LET cur == Select(key, current_block_type)
           p   == FallReset(player)
           w   == VoxelInput(voxels, self, self # NoVoxel, key, normal, cur, p)
       IN  /\ w = voxels \/ picks < MaxPicks
           /\ current_block_type' = cur
           /\ player' = p
           /\ voxels' = w
           /\ picks' = IF w = voxels THEN picks ELSE picks + 1
    /\ ev' = [key |-> key, hovered |-> self, normal |-> normal]
    /\ UNCHANGED <<pc, col, seed>>

\* Keyboard keys: the mouse position plays no part.
Keyboard ==
    \E key \in Keys \ {"left mouse down", "right mouse down"} :
        KeyEvent(key, NoVoxel, NoNormal)

\* Left button on the hovered entity.
LeftClick ==
    \E self \in Hoverable(voxels) :
        KeyEvent("left mouse down", self, NoNormal)

\* Right button on the hovered entity, with the normal of the face hit.
RightClick ==
    \E self \in Hoverable(voxels), normal \in Normals :
        KeyEvent("right mouse down", self, normal)

Move == \E p \in PlayerPositions : Tick(p)

Next == GenColumn \/ Move \/ Keyboard \/ LeftClick \/ RightClick

Spec == Init /\ [][Next]_vars

(***************************************************************************)
(* Vocabulary of the properties                                            *)
(***************************************************************************)
\* Number of entities of the world at coordinate c.
CountAt(w, c) ==
    BagCardinality([e \in {b \in DOMAIN w : b.position = c} |-> w[e]])

\* Entities of the world in column (x, z) that have the given type.
InColumn(w, x, z, t) ==
    {b \in DOMAIN w : b.position[1] = x /\ b.position[3] = z /\ b.block_type = t}

\* Number of entities of column (x, z) that have the given type.
CountInColumn(w, x, z, t) ==
    BagCardinality([b \in InColumn(w, x, z, t) |-> w[b]])

Footprint == (0..(world_size - 1)) \X (0..(world_size - 1))

\* floor(noise * world_height), stated by its defining inequalities.
FloorHeight(n) ==
    CHOOSE h \in (-(world_height + 1))..(world_height + 1) :
        h * NoiseDen <= n * world_height /\ n * world_height < (h + 1) * NoiseDen

Max(a, b) == IF a > b THEN a ELSE b

\* The world as generation left it: no event has changed it yet.
Generated == pc = "run" /\ picks = 0

\* The last event was a right click on an entity / a left click on one.
PlacePick == ev.key = "right mouse down" /\ ev.hovered # NoVoxel
DestroyPick == ev.key = "left mouse down" /\ ev.hovered # NoVoxel

\* hit_coord + face_normal of the last event
Target == Add(ev.hovered.position, ev.normal)

\* c is an integer nearest to q / Scale (either neighbour on a tie) /
\* the only nearest one.
Nearest(c, q) == 2 * (c * Scale - q) \in (-Scale)..Scale
StrictlyNearest(c, q) == 2 * (c * Scale - q) \in (1 - Scale)..(Scale - 1)
NearestCell(c, p) == \A i \in 1..3 : Nearest(c[i], p[i])
StrictlyNearestCell(c, p) == \A i \in 1..3 : StrictlyNearest(c[i], p[i])

\* The accepted selection vocabulary (keys 1..4) and the names it gives.
SelectionName(key) ==
    CASE key = "1" -> "grass" [] key = "2" -> "dirt"
      [] key = "3" -> "stone" [] key = "4" -> "wood"
Accepted == {"1", "2", "3", "4"}
KeyboardKeys == Keys \ {"left mouse down", "right mouse down"}

(***************************************************************************)
(* Properties                                                              *)
(***************************************************************************)
\* C1: in every reachable state each coordinate holds at most one block.
C1_UniqueOccupancy ==
    \A b \in DOMAIN voxels : CountAt(voxels, b.position) = 1

\* C2: after generation every footprint column (x, z) of height
\* h = floor(noise * world_height) has exactly one grass entity, at y = h,
\* exactly two dirt entities, at y = h-1 and y = h-2, one bedrock entity at
\* y = -1, and stone exactly at every y of 0..h-3 (none when h-3 < 0).
C2_ColumnLayering ==
    Generated =>
        \A c \in Footprint :
            LET x == c[1]
                z == c[2]
                h == FloorHeight(NoiseSample(seed, x, z))
                B(t, y) == [block_type |-> t, position |-> <<x, y, z>>]
            IN  /\ CountInColumn(voxels, x, z, "grass") = 1
                /\ CopiesIn(B("grass", h), voxels) = 1
                /\ CountInColumn(voxels, x, z, "dirt") = 2
                /\ CopiesIn(B("dirt", h - 1), voxels) = 1
                /\ CopiesIn(B("dirt", h - 2), voxels) = 1
                /\ CopiesIn(B("bedrock", -1), voxels) = 1
                /\ \A y \in 0..(h - 3) : CopiesIn(B("stone", y), voxels) = 1
                /\ CountInColumn(voxels, x, z, "stone") = Max(0, h - 2)

\* A generated column whose dirt layer reaches y = -1, where bedrock is too.
C2_Witness ==
    /\ Generated
    /\ BagIn([block_type |-> "dirt", position |-> <<0, -1, 0>>], voxels)
    /\ BagIn([block_type |-> "bedrock", position |-> <<0, -1, 0>>], voxels)

\* C3: a destroy pick on a coordinate holding bedrock leaves the world
\* unchanged; a destroy pick on a non-bedrock block removes it.
C3_BedrockCoordinateKept ==
    [][DestroyPick' =>
        LET self == ev'.hovered
            bedrock == [block_type |-> "bedrock", position |-> self.position]
        IN  /\ BagIn(bedrock, voxels) => voxels' = voxels
            /\ self.block_type # "bedrock" =>
                   CopiesIn(self, voxels') = CopiesIn(self, voxels) - 1
      ]_vars

\* C4: a place pick targets hit_coord + face_normal.  It is rejected (the
\* world stays as it was) only if the target is the integer cell nearest to
\* the actor on all three axes, and always when it is the only nearest one;
\* otherwise exactly one entity is added: the selected type at the target.
C4_PlaceRule ==
    [][PlacePick' =>
        LET target == Add(ev'.hovered.position, ev'.normal)
            rejected == voxels' = voxels
            placed == [block_type |-> current_block_type, position |-> target]
        IN  /\ StrictlyNearestCell(target, player') => rejected
            /\ rejected => NearestCell(target, player')
            /\ ~rejected => voxels' = voxels (+) SetToBag({placed})
            /\ current_block_type' = current_block_type
      ]_vars

\* A place pick aimed at the actor's cell was rejected.
C4_Witness ==
    /\ PlacePick
    /\ StrictlyNearestCell(Target, player)
    /\ picks = 0

\* C5: after a successful place of T at c a lookup of c gives exactly T:
\* the entity of type T is the only one at c.
C5_PlaceOverwrites ==
    [][(PlacePick' /\ voxels' # voxels) =>
        LET target == Add(ev'.hovered.position, ev'.normal)
            placed == [block_type |-> current_block_type, position |-> target]
        IN  /\ CopiesIn(placed, voxels') = 1
            /\ CountAt(voxels', target) = 1
      ]_vars

\* C6: after a successful destroy of the block at c no block remains at c.
C6_DestroyEmpties ==
    [][(DestroyPick' /\ voxels' # voxels) =>
        CountAt(voxels', ev'.hovered.position) = 0
      ]_vars

C8_TickResets ==
    [][(ev'.key = "tick" /\ Fallen(player)) => player' = RespawnPosition]_vars

\* C9: after generation the cell at y = -1 of every column holds bedrock
\* and nothing else; with world_size = 1 and noise 0.0 the world is exactly
\* grass at 0, bedrock at -1, dirt at -2.
C9_BedrockWins ==
    Generated =>
        /\ \A c \in Footprint :
               LET under == <<c[1], -1, c[2]>>
               IN  /\ CopiesIn([block_type |-> "bedrock", position |-> under],
                               voxels) = 1
                   /\ CountAt(voxels, under) = 1
        /\ (world_size = 1 /\ NoiseSample(seed, 0, 0) = 0) =>
               voxels = SetToBag({
                   [block_type |-> "grass",   position |-> <<0, 0, 0>>],
                   [block_type |-> "bedrock", position |-> <<0, -1, 0>>],
                   [block_type |-> "dirt",    position |-> <<0, -2, 0>>]})

\* C10: the selection is always one of grass, dirt, stone, wood, and once
\* generation is over the bedrock entities are exactly one per footprint
\* column, at y = -1.
C10_BedrockFixed ==
    /\ current_block_type \in {"grass", "dirt", "stone", "wood"}
    /\ pc = "run" =>
           /\ {b \in DOMAIN voxels : b.block_type = "bedrock"} =
                  {[block_type |-> "bedrock", position |-> <<c[1], -1, c[2]>>] :
                       c \in Footprint}
           /\ \A b \in DOMAIN voxels :
                  b.block_type = "bedrock" => CopiesIn(b, voxels) = 1

\* A destroy pick has been aimed at a bedrock entity.
C10_Witness ==
    /\ DestroyPick
    /\ ev.hovered.block_type = "bedrock"

====
